---------------------------- MODULE Spec2Model ----------------------------
(***************************************************************************)
(* Rootless container setup of youki's libcontainer                        *)
(* (crates/libcontainer/src/rootless.rs): the decision whether a container *)
(* runs rootless (Rootless::new), the validation of the OCI specification  *)
(* (validate, validate_mounts, is_id_mapped), the lookup of the            *)
(* newuidmap/newgidmap helpers (lookup_map_binaries) and the writing of    *)
(* the UID/GID mappings into the target process (write_id_mapping).        *)
(*                                                                         *)
(* Strings the code inspects or builds character by character (mount       *)
(* options, PATH, the formatted mapping line, the helper's arguments) are  *)
(* sequences of one-character strings.  A u32 is an integer of 0..MaxU32;  *)
(* MaxU32 stands for u32::MAX, scaled down so that the values can be       *)
(* enumerated, and arithmetic on it overflows as the code's does.          *)
(***************************************************************************)
EXTENDS Integers, Sequences, FiniteSets

VARIABLES
    spec,       \* the OCI specification handed to Rootless::new / validate
    env,        \* the process environment: euid, variables, files, build
    pc,         \* the caller's position in the setup sequence
    call,       \* the call in progress or last made, with its arguments
    ret,        \* what the last call returned
    rootless,   \* the Rootless value Rootless::new built, if any
    target,     \* the target process: its pid and its uid_map / gid_map
    trace       \* the external actions performed so far, in order

vars == <<spec, env, pc, call, ret, rootless, target, trace>>

---------------------------------------------------------------------------
(* Bounds of the model *)

\* u32::MAX, scaled down (a u32 is a value of 0..MaxU32)
MaxU32 == 11
\* the longest id mapping list enumerated
MaxMappings == 2
\* the longest PATH, in characters, enumerated for the helper lookup
MaxPathLen == 3

U32 == 0..MaxU32

---------------------------------------------------------------------------
(* Option<T> and Result<T> *)

None == [some |-> FALSE]
Some(x) == [some |-> TRUE, val |-> x]
IsSome(o) == o.some
IsNone(o) == ~o.some

Ok(x) == [tag |-> "Ok", val |-> x]
Err(e) == [tag |-> "Err", err |-> e]
\* a panic unwinds out of the call: neither Ok nor Err is returned
Panic(why) == [tag |-> "Panic", why |-> why]
IsOk(r) == r.tag = "Ok"
IsErr(r) == r.tag = "Err"
IsPanic(r) == r.tag = "Panic"
NotCalled == [tag |-> "NotCalled"]

\* All sequences over S of length at most n
SeqsUpTo(S, n) == UNION {[1..k -> S] : k \in 0..n}

---------------------------------------------------------------------------
(* u32 arithmetic *)

\* `a + b` on u32: with overflow checks (a debug build) an overflowing sum
\* panics, without them (a release build) it wraps around
AddU32(a, b, overflowChecks) ==
    IF a + b <= MaxU32 THEN Ok(a + b)
    ELSE IF overflowChecks THEN Panic("attempt to add with overflow")
    ELSE Ok((a + b) % (MaxU32 + 1))

\* The closure of is_id_mapped on one mapping: && evaluates the sum only
\* when id >= container_id
MappedBy(id, m, overflowChecks) ==
    IF id >= m.container_id
    THEN LET sum == AddU32(m.container_id, m.size, overflowChecks)
         IN  IF IsPanic(sum) THEN sum ELSE Ok(id <= sum.val)
    ELSE Ok(FALSE)

\* Iterator::any from mapping i on: stops at the first mapping that matches
RECURSIVE AnyMappedFrom(_, _, _, _)
AnyMappedFrom(id, mappings, i, overflowChecks) ==
    IF i > Len(mappings) THEN Ok(FALSE)
    ELSE LET r == MappedBy(id, mappings[i], overflowChecks)
         IN  IF IsPanic(r) THEN r
             ELSE IF r.val THEN Ok(TRUE)
             ELSE AnyMappedFrom(id, mappings, i + 1, overflowChecks)

is_id_mapped(id, mappings, overflowChecks) ==
    AnyMappedFrom(id, mappings, 1, overflowChecks)

---------------------------------------------------------------------------
(* Strings: formatting and parsing of integers *)

Digits == <<"0", "1", "2", "3", "4", "5", "6", "7", "8", "9">>
IsDigit(c) == \E i \in 1..10 : Digits[i] = c
DigitVal(c) == (CHOOSE i \in 1..10 : Digits[i] = c) - 1

\* Integer::to_string: the decimal digits, most significant first
RECURSIVE to_string(_)
to_string(n) ==
    IF n < 10 THEN <<Digits[n + 1]>>
    ELSE to_string(n \div 10) \o <<Digits[(n % 10) + 1]>>

\* str::starts_with
StartsWith(s, prefix) ==
    /\ Len(s) >= Len(prefix)
    /\ SubSeq(s, 1, Len(prefix)) = prefix

\* The digits of str::parse::<u32>, accumulated from the left with checked
\* arithmetic: a character that is no digit and a value above u32::MAX are
\* errors
RECURSIVE ParseDigits(_, _, _)
ParseDigits(s, i, acc) ==
    IF i > Len(s) THEN Ok(acc)
    ELSE IF ~IsDigit(s[i]) THEN Err("invalid digit found in string")
    ELSE IF acc * 10 + DigitVal(s[i]) > MaxU32
         THEN Err("number too large to fit in target type")
    ELSE ParseDigits(s, i + 1, acc * 10 + DigitVal(s[i]))

\* str::parse::<u32>: an empty string and a lone sign are errors, one leading
\* "+" is accepted, a "-" is an invalid digit
ParseU32(s) ==
    IF s = <<>> THEN Err("cannot parse integer from empty string")
    ELSE IF s = <<"+">> \/ s = <<"-">> THEN Err("invalid digit found in string")
    ELSE IF s[1] = "+" THEN ParseDigits(s, 2, 0)
    ELSE ParseDigits(s, 1, 0)

---------------------------------------------------------------------------
(* validate_mounts *)

UidPrefix == <<"u", "i", "d", "=">>
GidPrefix == <<"g", "i", "d", "=">>

UnmappedMountId ==
    "Mount specifies option which is not mapped inside the rootless container"

\* One `if opt.starts_with(prefix) && !is_id_mapped(opt[4..].parse()?, mappings)`:
\* Ok(TRUE) when the option passes
CheckIdOption(opt, prefix, mappings, overflowChecks) ==
    IF ~StartsWith(opt, prefix) THEN Ok(TRUE)
    ELSE LET n == ParseU32(SubSeq(opt, 5, Len(opt)))
         IN  IF IsErr(n) THEN n
             ELSE LET mapped == is_id_mapped(n.val, mappings, overflowChecks)
                  IN  IF IsPanic(mapped) THEN mapped
                      ELSE IF ~mapped.val THEN Err(UnmappedMountId)
                      ELSE Ok(TRUE)

\* The body of the inner loop: the uid check, then the gid check
CheckOption(opt, uid_mappings, gid_mappings, overflowChecks) ==
    LET u == CheckIdOption(opt, UidPrefix, uid_mappings, overflowChecks)
    IN  IF ~IsOk(u) THEN u
        ELSE CheckIdOption(opt, GidPrefix, gid_mappings, overflowChecks)

\* The option strings the two nested loops visit, in order: a mount without
\* options contributes none
RECURSIVE MountOptions(_)
MountOptions(mounts) ==
    IF mounts = <<>> THEN <<>>
    ELSE (IF IsSome(Head(mounts).options) THEN Head(mounts).options.val ELSE <<>>)
         \o MountOptions(Tail(mounts))

RECURSIVE CheckOptionsFrom(_, _, _, _, _)
CheckOptionsFrom(opts, i, uid_mappings, gid_mappings, overflowChecks) ==
    IF i > Len(opts) THEN Ok(TRUE)
    ELSE LET r == CheckOption(opts[i], uid_mappings, gid_mappings, overflowChecks)
         IN  IF ~IsOk(r) THEN r
             ELSE CheckOptionsFrom(opts, i + 1, uid_mappings, gid_mappings,
                                   overflowChecks)

validate_mounts(mounts, uid_mappings, gid_mappings, overflowChecks) ==
    CheckOptionsFrom(MountOptions(mounts), 1, uid_mappings, gid_mappings,
                     overflowChecks)

---------------------------------------------------------------------------
(* validate *)

NoLinux == "no linux in spec"
NoUserNamespace ==
    "rootless containers require the specification of a user namespace"
NoGidMappings == "rootless containers require gidMappings in spec"
NoUidMappings == "rootless containers require uidMappings in spec"
EmptyUidMappings == "rootless containers require at least one uid mapping"
EmptyGidMappings == "rootless containers require at least one gid mapping"
NoMounts == "no mounts in spec"
UnmappedSupplementaryGroup ==
    "gid is specified as supplementary group, but is not mapped in the user namespace"
SupplementaryGroupsForbidden ==
    "Supplementary groups cannot be set in a rootless container for this user due to CVE-2014-8989"

\* Namespaces::from(linux.namespaces()).get(LinuxNamespaceType::User): the
\* namespace entry of type user, if the list has one (a list names a type
\* at most once)
UserNamespace(linux) ==
    LET nss == IF IsSome(linux.namespaces) THEN linux.namespaces.val ELSE <<>>
        at == {i \in 1..Len(nss) : nss[i].typ = "user"}
    IN  IF at = {} THEN None ELSE Some(nss[CHOOSE i \in at : TRUE])

\* spec.process().and_then(|process| process.user().additional_gids())
AdditionalGids(s) ==
    IF IsSome(s.process) THEN s.process.val.user.additional_gids ELSE None

\* The loop over the additional gids: the first gid that is not mapped fails
RECURSIVE CheckGidsFrom(_, _, _, _)
CheckGidsFrom(gids, i, gid_mappings, overflowChecks) ==
    IF i > Len(gids) THEN Ok(TRUE)
    ELSE LET mapped == is_id_mapped(gids[i], gid_mappings, overflowChecks)
         IN  IF IsPanic(mapped) THEN mapped
             ELSE IF ~mapped.val THEN Err(UnmappedSupplementaryGroup)
             ELSE CheckGidsFrom(gids, i + 1, gid_mappings, overflowChecks)

\* The match on (privileged, additional_gids.is_empty())
CheckAdditionalGids(s, gid_mappings, e) ==
    LET additional_gids == AdditionalGids(s)
    IN  IF IsNone(additional_gids) THEN Ok(TRUE)
        ELSE IF additional_gids.val = <<>> THEN Ok(TRUE)
        ELSE IF e.euidRoot
             THEN CheckGidsFrom(additional_gids.val, 1, gid_mappings,
                                e.overflowChecks)
        ELSE Err(SupplementaryGroupsForbidden)

validate(s, e) ==
    IF IsNone(s.linux) THEN Err(NoLinux)
    ELSE LET linux == s.linux.val IN
    IF IsNone(UserNamespace(linux)) THEN Err(NoUserNamespace)
    ELSE IF IsNone(linux.gid_mappings) THEN Err(NoGidMappings)
    ELSE IF IsNone(linux.uid_mappings) THEN Err(NoUidMappings)
    ELSE LET uid_mappings == linux.uid_mappings.val
             gid_mappings == linux.gid_mappings.val IN
    IF uid_mappings = <<>> THEN Err(EmptyUidMappings)
    ELSE IF gid_mappings = <<>> THEN Err(EmptyGidMappings)
    ELSE IF IsNone(s.mounts) THEN Err(NoMounts)
    ELSE LET m == validate_mounts(s.mounts.val, uid_mappings, gid_mappings,
                                  e.overflowChecks) IN
    IF ~IsOk(m) THEN m
    ELSE CheckAdditionalGids(s, gid_mappings, e)

---------------------------------------------------------------------------
(* lookup_map_binaries *)

NoPath == "could not find PATH"
MissingHelperBinary ==
    "newuidmap/newgidmap binaries could not be found in path. This is required if multiple id mappings are specified"

\* str::split(':') from character i on, cur being the piece read so far
RECURSIVE SplitFrom(_, _, _)
SplitFrom(s, i, cur) ==
    IF i > Len(s) THEN <<cur>>
    ELSE IF s[i] = ":" THEN <<cur>> \o SplitFrom(s, i + 1, <<>>)
    ELSE SplitFrom(s, i + 1, Append(cur, s[i]))

\* str::split_terminator(':'): the pieces between the colons, without the
\* empty piece that follows a final colon (or that an empty string is)
SplitTerminator(s) ==
    LET pieces == SplitFrom(s, 1, <<>>)
    IN  IF pieces[Len(pieces)] = <<>>
        THEN SubSeq(pieces, 1, Len(pieces) - 1)
        ELSE pieces

\* Path::new(p).join(binary)
Join(p, binary) == [dir |-> p, file |-> binary]

\* A search that keeps the last directory holding the binary, not the first
FindExisting_Last(dirs, binary, e) ==
    LET hits == {i \in 1..Len(dirs) : Join(dirs[i], binary) \in e.exists}
    IN  IF hits = {} THEN None
        ELSE Some(Join(dirs[CHOOSE i \in hits : \A j \in hits : i >= j], binary))

\* Iterator::find(|p| p.exists()) over the joined paths
FindExisting(dirs, binary, e) ==
    LET hits == {i \in 1..Len(dirs) : Join(dirs[i], binary) \in e.exists}
    IN  IF hits = {} THEN None
        ELSE Some(Join(dirs[CHOOSE i \in hits : \A j \in hits : i <= j], binary))

lookup_map_binary(binary, e) ==
    IF IsNone(e.PATH) THEN Err(NoPath)
    ELSE Ok(FindExisting(SplitTerminator(e.PATH.val), binary, e))

lookup_map_binaries(linux, e) ==
    IF IsSome(linux.uid_mappings)
    THEN IF Len(linux.uid_mappings.val) = 1 /\ Len(linux.uid_mappings.val) = 1
         THEN Ok(None)
         ELSE LET uidmap == lookup_map_binary("newuidmap", e) IN
              IF IsErr(uidmap) THEN uidmap
              ELSE LET gidmap == lookup_map_binary("newgidmap", e) IN
              IF IsErr(gidmap) THEN gidmap
              ELSE IF IsSome(uidmap.val) /\ IsSome(gidmap.val)
                   THEN Ok(Some(<<uidmap.val.val, gidmap.val.val>>))
                   ELSE Err(MissingHelperBinary)
    ELSE Ok(None)

---------------------------------------------------------------------------
(* Rootless::new *)

MissingUserNamespace ==
    "rootless container requires valid user namespace definition"

\* rootless_required without the YOUKI_USE_ROOTLESS override
rootless_required_NoOverride(e) ==
    ~e.euidRoot

rootless_required(e) ==
    IF ~e.euidRoot THEN TRUE
    ELSE e.YOUKI_USE_ROOTLESS = Some("true")

\* impl From<&Linux> for Rootless
RootlessFrom(linux, e) ==
    [newuidmap      |-> None,
     newgidmap      |-> None,
     uid_mappings   |-> linux.uid_mappings,
     gid_mappings   |-> linux.gid_mappings,
     user_namespace |-> UserNamespace(linux),
     privileged     |-> e.euidRoot]

\* A user namespace entry that joins an existing namespace by path, taken
\* for one that creates a namespace
CreatesUserNamespace_AnyEntry(user_namespace) ==
    IsSome(user_namespace)

\* The condition under which Rootless::new sets up a rootless container: the
\* specification has a user namespace entry and the entry has no path
CreatesUserNamespace(user_namespace) ==
    IsSome(user_namespace) /\ IsNone(user_namespace.val.path)

\* The rest of Rootless::new once lookup_map_binaries has returned l: its
\* error is propagated, the helper paths it found are attached
NewLocated(linux, e, v, l) ==
    IF IsErr(l)
    THEN [ret |-> l, validate |-> v, lookup |-> l]
    ELSE IF IsSome(l.val)
    THEN [ret      |-> Ok(Some([RootlessFrom(linux, e) EXCEPT
                                   !.newuidmap = Some(l.val.val[1]),
                                   !.newgidmap = Some(l.val.val[2])])),
          validate |-> v, lookup |-> l]
    ELSE [ret |-> Ok(Some(RootlessFrom(linux, e))), validate |-> v, lookup |-> l]

\* The rest of Rootless::new once validate has returned v: its failure is
\* propagated before anything is built or looked up
NewValidated(linux, e, v) ==
    IF ~IsOk(v)
    THEN [ret |-> v, validate |-> v, lookup |-> NotCalled]
    ELSE NewLocated(linux, e, v, lookup_map_binaries(linux, e))

\* Rootless::new: what it returns (ret), and what validate and
\* lookup_map_binaries returned to it, NotCalled when it did not call them
RootlessNew(s, e) ==
    IF IsNone(s.linux)
    THEN [ret |-> Err(NoLinux), validate |-> NotCalled, lookup |-> NotCalled]
    ELSE IF rootless_required(e) /\ IsNone(UserNamespace(s.linux.val))
    THEN [ret |-> Err(MissingUserNamespace), validate |-> NotCalled,
          lookup |-> NotCalled]
    ELSE IF CreatesUserNamespace(UserNamespace(s.linux.val))
    THEN NewValidated(s.linux.val, e, validate(s, e))
    ELSE [ret |-> Ok(None), validate |-> NotCalled, lookup |-> NotCalled]

---------------------------------------------------------------------------
(* write_id_mapping *)

EmptyMappingList == "at least one id mapping needs to be defined"
MappingWriteFailure == "failed to write file"
HelperExecutionFailure == "failed to execute"

Chars_proc == <<"/", "p", "r", "o", "c", "/">>
Chars_uid_map == <<"/", "u", "i", "d", "_", "m", "a", "p">>
Chars_gid_map == <<"/", "g", "i", "d", "_", "m", "a", "p">>

\* format!("{} {} {}", m.container_id(), m.host_id(), m.size())
FormatMapping(m) ==
    to_string(m.container_id) \o <<" ">> \o to_string(m.host_id) \o <<" ">>
    \o to_string(m.size)

\* The flat_map over the mappings: three arguments for each, in list order
RECURSIVE MappingArgs(_)
MappingArgs(mappings) ==
    IF mappings = <<>> THEN <<>>
    ELSE <<to_string(Head(mappings).container_id),
           to_string(Head(mappings).host_id),
           to_string(Head(mappings).size)>> \o MappingArgs(Tail(mappings))

\* write_id_mapping: what it returns (ret) and the external actions it
\* performs, in order, each with what it met (outcome).  io is what utils::write_file meets ("ok" or
\* "error"); helper is what Command::output meets: None when the program
\* cannot be spawned, Some(status) when it ran and exited with that status
write_id_mapping(pid, map_file, mappings, map_binary, io, helper) ==
    IF Len(mappings) = 0
    THEN [ret |-> Err(EmptyMappingList), actions |-> <<>>]
    ELSE IF Len(mappings) = 1
    THEN [ret     |-> IF io = "ok" THEN Ok(TRUE) ELSE Err(MappingWriteFailure),
          actions |-> <<[kind    |-> "write_file",
                         path    |-> map_file,
                         content |-> FormatMapping(mappings[1]),
                         outcome |-> io]>>]
    ELSE IF IsNone(map_binary)
    THEN [ret     |-> Panic("called Option::unwrap on a None value"),
          actions |-> <<>>]
    ELSE [ret     |-> IF IsNone(helper) THEN Err(HelperExecutionFailure)
                      ELSE Ok(TRUE),
          actions |-> <<[kind    |-> "command",
                         program |-> map_binary.val,
                         args    |-> <<to_string(pid)>> \o MappingArgs(mappings),
                         outcome |-> helper]>>]

write_uid_mapping(self, target_pid, io, helper) ==
    IF IsSome(self.uid_mappings)
    THEN write_id_mapping(target_pid,
                          Chars_proc \o to_string(target_pid) \o Chars_uid_map,
                          self.uid_mappings.val, self.newuidmap, io, helper)
    ELSE [ret |-> Ok(TRUE), actions |-> <<>>]

write_gid_mapping(self, target_pid, io, helper) ==
    IF IsSome(self.gid_mappings)
    THEN write_id_mapping(target_pid,
                          Chars_proc \o to_string(target_pid) \o Chars_gid_map,
                          self.gid_mappings.val, self.newgidmap, io, helper)
    ELSE [ret |-> Ok(TRUE), actions |-> <<>>]

---------------------------------------------------------------------------
(* The inputs enumerated *)

Mapping(c, h, n) == [container_id |-> c, host_id |-> h, size |-> n]
Namespace(t, p) == [typ |-> t, path |-> p]
Mount(o) == [options |-> o]
Process(g) == [user |-> [additional_gids |-> g]]

\* The u32 values at the two ends of the range
BoundaryU32 == {0, 1, 2, MaxU32 - 1, MaxU32}

\* A mapping list with n entries: consecutive ranges of two ids each
MappingList(n, h) == [i \in 1..n |-> Mapping(2 * (i - 1), h + i, 1)]

NewUserNamespace == Namespace("user", None)
JoinedUserNamespace == Namespace("user", Some("/proc/1/ns/user"))
PidNamespace == Namespace("pid", None)

NoSpec == [linux |-> None, mounts |-> None, process |-> None]
NoEnv ==
    [euidRoot |-> TRUE, YOUKI_USE_ROOTLESS |-> None, PATH |-> None,
     exists |-> {}, overflowChecks |-> FALSE]
NoTarget == [pid |-> 1, uid_map |-> None, gid_map |-> None]

\* Mount option strings: ids at both ends of u32 and one past it, a signed
\* id, an empty and a malformed id, and options that are no id option
IdOption(prefix, n) == prefix \o to_string(n)
OptionStrings ==
    {IdOption(UidPrefix, n) : n \in {0, 2, MaxU32, MaxU32 + 1}}
    \cup {IdOption(GidPrefix, n) : n \in {2, MaxU32}}
    \cup {UidPrefix \o <<"+", "1">>, UidPrefix, GidPrefix \o <<"x">>,
          <<"r", "o">>, <<"u", "i", "d">>}

---------------------------------------------------------------------------
(* is_id_mapped on its own *)

InitMapped ==
    /\ spec = NoSpec
    /\ env \in {[NoEnv EXCEPT !.overflowChecks = b] : b \in BOOLEAN}
    /\ pc = "start"
    /\ call \in {[op |-> "is_id_mapped", id |-> id, mappings |-> ms] :
                   id \in U32,
                   ms \in SeqsUpTo({Mapping(c, 0, n) : c \in BoundaryU32,
                                                       n \in BoundaryU32},
                                   MaxMappings)}
    /\ ret = NotCalled
    /\ rootless = None
    /\ target = NoTarget
    /\ trace = <<>>

IsIdMappedCall ==
    /\ pc = "start"
    /\ call.op = "is_id_mapped"
    /\ ret' = is_id_mapped(call.id, call.mappings, env.overflowChecks)
    /\ pc' = "returned"
    /\ UNCHANGED <<spec, env, call, rootless, target, trace>>

NextMapped == IsIdMappedCall

SpecMapped == InitMapped /\ [][NextMapped]_vars

---------------------------------------------------------------------------
(* validate on its own *)

ValidateLinux ==
    {[namespaces |-> ns, uid_mappings |-> u, gid_mappings |-> g] :
        ns \in {None, Some(<<PidNamespace>>), Some(<<NewUserNamespace>>)},
        u \in {None, Some(<<>>), Some(<<Mapping(0, 0, 2)>>),
               Some(<<Mapping(1, 0, MaxU32)>>),
               Some(<<Mapping(0, 0, 1), Mapping(MaxU32, 2, 0)>>)},
        g \in {None, Some(<<>>), Some(<<Mapping(0, 0, 2)>>),
               Some(<<Mapping(1, 0, MaxU32)>>),
               Some(<<Mapping(4, 0, 1), Mapping(2, 0, 0)>>)}}

ValidateMounts ==
    {None, Some(<<>>), Some(<<Mount(None)>>)}
    \cup {Some(<<Mount(Some(<<o>>))>>) : o \in OptionStrings}
    \cup {Some(<<Mount(Some(<<<<"r", "o">>, o>>)), Mount(None)>>) :
            o \in {IdOption(UidPrefix, 2), IdOption(GidPrefix, 2)}}
    \cup {Some(<<Mount(Some(<<>>)), Mount(Some(<<o>>))>>) :
            o \in {IdOption(UidPrefix, 2), IdOption(GidPrefix, MaxU32)}}

ValidateProcess ==
    {None, Some(Process(None)), Some(Process(Some(<<>>)))}
    \cup {Some(Process(Some(<<g>>))) : g \in {0, 2, 3, MaxU32}}
    \cup {Some(Process(Some(<<2, g>>))) : g \in {0, 3, MaxU32}}

InitValidate ==
    /\ spec \in {NoSpec}
                \cup {[linux |-> Some(l), mounts |-> m, process |-> p] :
                        l \in ValidateLinux, m \in ValidateMounts,
                        p \in ValidateProcess}
    /\ env \in {[NoEnv EXCEPT !.euidRoot = r, !.overflowChecks = b] :
                  r \in BOOLEAN, b \in BOOLEAN}
    /\ pc = "start"
    /\ call = [op |-> "validate"]
    /\ ret = NotCalled
    /\ rootless = None
    /\ target = NoTarget
    /\ trace = <<>>

ValidateCall ==
    /\ pc = "start"
    /\ call.op = "validate"
    /\ ret' = validate(spec, env)
    /\ pc' = "returned"
    /\ UNCHANGED <<spec, env, call, rootless, target, trace>>

NextValidate == ValidateCall

SpecValidate == InitValidate /\ [][NextValidate]_vars

---------------------------------------------------------------------------
(* lookup_map_binaries on its own *)

PathChars == {"a", "b", ":"}
\* The directories a helper may be installed in: the working directory (the
\* empty piece of PATH), a and b
SearchDirs == {<<>>, <<"a">>, <<"b">>}

Installed(uidDirs, gidDirs) ==
    {Join(d, "newuidmap") : d \in uidDirs} \cup {Join(d, "newgidmap") : d \in gidDirs}

InitLocate ==
    /\ spec \in {[NoSpec EXCEPT !.linux =
                     Some([namespaces |-> Some(<<NewUserNamespace>>),
                           uid_mappings |-> u,
                           gid_mappings |-> Some(MappingList(1, 0))])] :
                   u \in {None} \cup {Some(MappingList(n, 0)) :
                                        n \in 0..(MaxMappings + 1)}}
    /\ env \in {[NoEnv EXCEPT !.PATH = p, !.exists = Installed(ud, gd)] :
                  p \in {None} \cup {Some(q) : q \in SeqsUpTo(PathChars, MaxPathLen)},
                  ud \in SUBSET SearchDirs, gd \in SUBSET SearchDirs}
    /\ pc = "start"
    /\ call = [op |-> "lookup_map_binaries"]
    /\ ret = NotCalled
    /\ rootless = None
    /\ target = NoTarget
    /\ trace = <<>>

LookupCall ==
    /\ pc = "start"
    /\ call.op = "lookup_map_binaries"
    /\ ret' = lookup_map_binaries(spec.linux.val, env)
    /\ pc' = "returned"
    /\ UNCHANGED <<spec, env, call, rootless, target, trace>>

NextLocate == LookupCall

SpecLocate == InitLocate /\ [][NextLocate]_vars

---------------------------------------------------------------------------
(* The setup sequence: Rootless::new, write_uid_mapping, write_gid_mapping *)

SetupLinux ==
    {[namespaces |-> ns, uid_mappings |-> u, gid_mappings |-> g] :
        ns \in {None, Some(<<>>), Some(<<PidNamespace>>),
                Some(<<NewUserNamespace>>), Some(<<JoinedUserNamespace>>),
                Some(<<PidNamespace, NewUserNamespace>>),
                Some(<<Namespace("user", Some("")), PidNamespace>>)},
        u \in {None} \cup {Some(MappingList(n, 8)) : n \in 0..MaxMappings},
        g \in {None} \cup {Some(MappingList(n, 3)) : n \in 0..MaxMappings}}

SetupMounts ==
    {None, Some(<<>>),
     Some(<<Mount(Some(<<<<"r", "o">>, IdOption(UidPrefix, 1)>>))>>),
     Some(<<Mount(Some(<<IdOption(GidPrefix, MaxU32)>>))>>)}

SetupProcess == {None, Some(Process(Some(<<>>))), Some(Process(Some(<<1>>)))}

Path_a_b == <<"a", ":", "b">>
SetupFiles ==
    {<<None, {}>>,
     <<Some(Path_a_b), {}>>,
     <<Some(Path_a_b), Installed({<<"a">>}, {})>>,
     <<Some(Path_a_b), Installed({<<"a">>, <<"b">>}, {<<"b">>})>>}

SetupEnv ==
    {[euidRoot |-> r, YOUKI_USE_ROOTLESS |-> v, PATH |-> f[1], exists |-> f[2],
      overflowChecks |-> b] :
        r \in BOOLEAN, v \in {None, Some("true"), Some("1")},
        f \in SetupFiles, b \in BOOLEAN}

TargetPids == {42}

\* What utils::write_file and Command::output can meet
IoOutcomes == {"ok", "error"}
HelperOutcomes == {None, Some(0), Some(1)}

Init ==
    /\ spec \in {NoSpec}
                \cup {[linux |-> Some(l), mounts |-> m, process |-> p] :
                        l \in SetupLinux, m \in SetupMounts, p \in SetupProcess}
    /\ env \in SetupEnv
    /\ pc = "start"
    /\ call = [op |-> "none"]
    /\ ret = NotCalled
    /\ rootless = None
    /\ target \in {[pid |-> p, uid_map |-> None, gid_map |-> None] :
                     p \in TargetPids}
    /\ trace = <<>>

\* Where the caller stands after a call that returned r: it goes on to next
\* after Ok and stops at the first error
After(r, next) ==
    IF IsOk(r) THEN next ELSE IF IsErr(r) THEN "failed" ELSE "panicked"

\* The caller builds the context
New ==
    /\ pc = "start"
    /\ \E r \in {RootlessNew(spec, env)} :
         /\ call' = [op |-> "new", validate |-> r.validate, lookup |-> r.lookup]
         /\ ret' = r.ret
         /\ rootless' = IF IsOk(r.ret) THEN r.ret.val ELSE None
         /\ pc' = After(r.ret, IF IsOk(r.ret) /\ IsSome(r.ret.val)
                               THEN "built" ELSE "not_rootless")
    /\ UNCHANGED <<spec, env, target, trace>>

\* What an external action leaves in the map file of the target: the line a
\* successful write_file wrote, the ranges a helper that exited with status
\* zero was given; nothing otherwise
Written(actions, old) ==
    IF actions = <<>> THEN old
    ELSE LET a == actions[1] IN
         IF a.kind = "write_file"
         THEN (IF a.outcome = "ok" THEN Some(<<a.content>>) ELSE old)
         ELSE (IF IsSome(a.outcome) /\ a.outcome.val = 0
               THEN Some(Tail(a.args)) ELSE old)

\* The caller writes the UID mapping of the target process
WriteUidMapping ==
    /\ pc = "built"
    /\ \E io \in IoOutcomes, helper \in HelperOutcomes :
         \E w \in {write_uid_mapping(rootless.val, target.pid, io, helper)} :
         /\ call' = [op |-> "write_uid_mapping",
                     mappings |-> rootless.val.uid_mappings,
                     actions |-> w.actions]
         /\ ret' = w.ret
         /\ trace' = trace \o w.actions
         /\ target' = [target EXCEPT !.uid_map = Written(w.actions, @)]
         /\ pc' = After(w.ret, "uid_done")
    /\ UNCHANGED <<spec, env, rootless>>

\* The caller writes the GID mapping of the target process
WriteGidMapping ==
    /\ pc = "uid_done"
    /\ \E io \in IoOutcomes, helper \in HelperOutcomes :
         \E w \in {write_gid_mapping(rootless.val, target.pid, io, helper)} :
         /\ call' = [op |-> "write_gid_mapping",
                     mappings |-> rootless.val.gid_mappings,
                     actions |-> w.actions]
         /\ ret' = w.ret
         /\ trace' = trace \o w.actions
         /\ target' = [target EXCEPT !.gid_map = Written(w.actions, @)]
         /\ pc' = After(w.ret, "done")
    /\ UNCHANGED <<spec, env, rootless>>

Next == New \/ WriteUidMapping \/ WriteGidMapping

Spec == Init /\ [][Next]_vars

---------------------------------------------------------------------------
(* Notions the properties are stated with *)

\* The inclusive range test of the specification, the sum being an integer:
\* some entry has container_id <= id <= container_id + size
Covered(id, mappings) ==
    \E i \in 1..Len(mappings) :
        /\ mappings[i].container_id <= id
        /\ id <= mappings[i].container_id + mappings[i].size

\* The specification declares a user namespace entry
DeclaresUserNamespace(linux) ==
    /\ IsSome(linux.namespaces)
    /\ \E i \in 1..Len(linux.namespaces.val) : linux.namespaces.val[i].typ = "user"

\* The specification declares a user namespace entry that carries a path
JoinsUserNamespace(linux) ==
    /\ IsSome(linux.namespaces)
    /\ \E i \in 1..Len(linux.namespaces.val) :
          /\ linux.namespaces.val[i].typ = "user"
          /\ IsSome(linux.namespaces.val[i].path)

\* The user namespace and both mapping lists are there, the lists not empty
HasNamespaceAndMappings(s) ==
    /\ IsSome(s.linux)
    /\ DeclaresUserNamespace(s.linux.val)
    /\ IsSome(s.linux.val.uid_mappings) /\ s.linux.val.uid_mappings.val # <<>>
    /\ IsSome(s.linux.val.gid_mappings) /\ s.linux.val.gid_mappings.val # <<>>

\* The option has the form <prefix>N and N does not parse as a u32 or is not
\* covered by the mapping list
BadIdOption(opt, prefix, mappings) ==
    /\ StartsWith(opt, prefix)
    /\ \/ IsErr(ParseU32(SubSeq(opt, 5, Len(opt))))
       \/ ~Covered(ParseU32(SubSeq(opt, 5, Len(opt))).val, mappings)

\* Some option of some configured mount is a bad uid= or gid= option
HasBadMountOption(s) ==
    /\ IsSome(s.mounts)
    /\ \E i \in 1..Len(s.mounts.val) :
          /\ IsSome(s.mounts.val[i].options)
          /\ \E j \in 1..Len(s.mounts.val[i].options.val) :
                \/ BadIdOption(s.mounts.val[i].options.val[j], UidPrefix,
                               s.linux.val.uid_mappings.val)
                \/ BadIdOption(s.mounts.val[i].options.val[j], GidPrefix,
                               s.linux.val.gid_mappings.val)

\* validate returned the failure of its mount check
MountCheckFailed(r) ==
    /\ IsErr(r)
    /\ r.err \in {NoMounts, UnmappedMountId,
                  "cannot parse integer from empty string",
                  "invalid digit found in string",
                  "number too large to fit in target type"}

Returned(op) == pc = "returned" /\ call.op = op
IsWrite == call.op \in {"write_uid_mapping", "write_gid_mapping"}
HelperName == IF call.op = "write_uid_mapping" THEN "newuidmap" ELSE "newgidmap"
MapFile ==
    Chars_proc \o to_string(target.pid)
    \o (IF call.op = "write_uid_mapping" THEN Chars_uid_map ELSE Chars_gid_map)

\* The external action failed: the write met an error, the helper could not
\* be spawned or exited with a non-zero status
ActionFailed(a) ==
    IF a.kind = "write_file" THEN a.outcome # "ok"
    ELSE IsNone(a.outcome) \/ a.outcome.val # 0

---------------------------------------------------------------------------
(* The claims *)

\* C1: with two or more mappings, write_uid_mapping / write_gid_mapping
\* return an error whenever the helper cannot be spawned or exits with a
\* non-zero status, and return success only when it exits with status zero.
C1_HelperFailureIsError ==
    (IsWrite /\ IsSome(call.mappings) /\ Len(call.mappings.val) >= 2)
    => /\ \A i \in 1..Len(call.actions) :
             ActionFailed(call.actions[i]) => IsErr(ret)
       /\ IsOk(ret) => /\ Len(call.actions) = 1
                       /\ call.actions[1].kind = "command"
                       /\ ~ActionFailed(call.actions[1])

\* C2: for a specification that passes the user namespace, mapping and mount
\* checks, validate succeeds iff the additional gids are absent or empty, or
\* the invoker is the superuser and every additional gid is covered by the
\* GID mappings; for another invoker with additional gids it always fails
\* with SupplementaryGroupsForbidden.
C2_SupplementaryGroupPolicy ==
    (/\ Returned("validate")
     /\ HasNamespaceAndMappings(spec)
     /\ IsSome(spec.mounts)
     /\ IsOk(validate_mounts(spec.mounts.val, spec.linux.val.uid_mappings.val,
                             spec.linux.val.gid_mappings.val,
                             env.overflowChecks)))
    => LET gids == AdditionalGids(spec)
           none == IsNone(gids) \/ gids.val = <<>>
       IN  /\ IsOk(ret) <=>
                \/ none
                \/ /\ env.euidRoot
                   /\ \A i \in 1..Len(gids.val) :
                         Covered(gids.val[i], spec.linux.val.gid_mappings.val)
           /\ (~none /\ ~env.euidRoot)
                => IsErr(ret) /\ ret.err = SupplementaryGroupsForbidden

\* C3: with the user namespace and non-empty mapping lists present, the mount
\* check of validate fails exactly when some option of some mount is uid=N or
\* gid=N with N not an unsigned integer or not covered by the mapping list;
\* otherwise the mount check passes.  (Stated for the specifications that
\* have a mount list: validate rejects one without, "no mounts in spec",
\* before it looks at any option.)
C3_MountOptionConsistency ==
    (Returned("validate") /\ HasNamespaceAndMappings(spec) /\ IsSome(spec.mounts))
    => \E m \in {validate_mounts(spec.mounts.val, spec.linux.val.uid_mappings.val,
                                 spec.linux.val.gid_mappings.val,
                                 env.overflowChecks)} :
          /\ HasBadMountOption(spec)
               => IsErr(m) /\ MountCheckFailed(ret) /\ ret.err = m.err
          /\ ~HasBadMountOption(spec) => IsOk(m) /\ ~MountCheckFailed(ret)

\* C4: with a Linux section and no user namespace entry, Rootless::new fails
\* with MissingUserNamespace whenever the invoker is not the superuser or
\* YOUKI_USE_ROOTLESS is "true"; it returns neither None nor Some.
C4_MissingUserNamespace ==
    (/\ pc # "start"
     /\ IsSome(spec.linux)
     /\ ~DeclaresUserNamespace(spec.linux.val)
     /\ (~env.euidRoot
         \/ (IsSome(env.YOUKI_USE_ROOTLESS) /\ env.YOUKI_USE_ROOTLESS.val = "true")))
    => /\ call.op = "new"
       /\ pc = "failed"
       /\ IsErr(ret) /\ ret.err = MissingUserNamespace
       /\ IsNone(rootless)

\* C4 witness: the superuser, the override set, no user namespace: new failed
C4_Witness ==
    /\ pc = "failed" /\ call.op = "new"
    /\ IsSome(spec.linux) /\ ~DeclaresUserNamespace(spec.linux.val)
    /\ env.euidRoot
    /\ IsSome(env.YOUKI_USE_ROOTLESS) /\ env.YOUKI_USE_ROOTLESS.val = "true"
    /\ IsErr(ret) /\ ret.err = MissingUserNamespace

\* C5: when the user namespace entry carries a path, Rootless::new returns
\* None whatever the mappings, mounts, additional gids, invoker and override
\* are, and runs neither validate nor lookup_map_binaries.
C5_JoinedNamespaceIsNotRootless ==
    (/\ pc # "start"
     /\ IsSome(spec.linux)
     /\ JoinsUserNamespace(spec.linux.val))
    => /\ call.op = "new"
       /\ pc = "not_rootless"
       /\ IsOk(ret) /\ IsNone(ret.val)
       /\ call.validate = NotCalled
       /\ call.lookup = NotCalled

\* C5 witness: a joined user namespace in a specification validate would
\* reject, for an invoker who is not the superuser: new returned None
C5_Witness ==
    /\ pc = "not_rootless"
    /\ IsSome(spec.linux) /\ JoinsUserNamespace(spec.linux.val)
    /\ ~env.euidRoot
    /\ IsErr(validate(spec, env))
    /\ IsOk(ret) /\ IsNone(ret.val)

\* p is the binary in the first directory of PATH, in list order, that
\* contains it
IsFirstOnPath(p, binary) ==
    /\ IsSome(env.PATH)
    /\ \E i \in 1..Len(SplitTerminator(env.PATH.val)) :
          /\ p = Join(SplitTerminator(env.PATH.val)[i], binary)
          /\ p \in env.exists
          /\ \A j \in 1..(i - 1) :
                Join(SplitTerminator(env.PATH.val)[j], binary) \notin env.exists

\* No directory of PATH contains the binary
NotOnPath(binary) ==
    /\ IsSome(env.PATH)
    /\ \A i \in 1..Len(SplitTerminator(env.PATH.val)) :
          Join(SplitTerminator(env.PATH.val)[i], binary) \notin env.exists

\* C6: lookup_map_binaries returns None when the UID mapping list is absent
\* or has exactly one entry; with two or more entries it returns both helper
\* paths, each the first directory of PATH that contains the helper, or it
\* fails, and it fails exactly when PATH is unset or a helper is in no
\* directory of PATH.  It never returns one path only.
C6_LocatorPolicy ==
    Returned("lookup_map_binaries")
    => LET uid == spec.linux.val.uid_mappings IN
       /\ (IsNone(uid) \/ Len(uid.val) = 1) => (IsOk(ret) /\ IsNone(ret.val))
       /\ (IsSome(uid) /\ Len(uid.val) >= 2)
            => \/ /\ IsOk(ret) /\ IsSome(ret.val)
                  /\ Len(ret.val.val) = 2
                  /\ IsFirstOnPath(ret.val.val[1], "newuidmap")
                  /\ IsFirstOnPath(ret.val.val[2], "newgidmap")
               \/ /\ IsErr(ret)
                  /\ \/ IsNone(env.PATH)
                     \/ NotOnPath("newuidmap")
                     \/ NotOnPath("newgidmap")

\* C6 witness: two or more UID mappings, newuidmap in two directories of
\* PATH and newgidmap in another one than the first newuidmap: both returned
C6_Witness ==
    /\ Returned("lookup_map_binaries")
    /\ IsSome(spec.linux.val.uid_mappings)
    /\ Len(spec.linux.val.uid_mappings.val) >= 2
    /\ IsOk(ret) /\ IsSome(ret.val)
    /\ ret.val.val[1].dir # ret.val.val[2].dir
    /\ \E d \in SearchDirs :
          /\ d # ret.val.val[1].dir
          /\ Join(d, "newuidmap") \in env.exists
          /\ \E i \in 1..Len(SplitTerminator(env.PATH.val)) :
                SplitTerminator(env.PATH.val)[i] = d

\* C7: is_id_mapped returns a boolean for every id and mapping list, true
\* iff some entry has container_id <= id <= container_id + size, the sum
\* taken as an integer, also when it exceeds u32::MAX.
C7_InclusiveRangeMembership ==
    Returned("is_id_mapped")
    => /\ IsOk(ret)
       /\ ret.val <=> Covered(call.id, call.mappings)

\* C8: each write_uid_mapping / write_gid_mapping performs exactly one
\* external action chosen by the length of its mapping list: one entry, one
\* write of "<container_id> <host_id> <size>" to the map file and no helper;
\* two or more, one invocation of the helper with the pid and the triples in
\* list order and no write; an absent list, no action and success; an empty
\* list, no action and an error.
C8_OneExternalAction ==
    IsWrite
    => /\ IsNone(call.mappings) => (call.actions = <<>> /\ IsOk(ret))
       /\ (IsSome(call.mappings) /\ Len(call.mappings.val) = 0)
            => (call.actions = <<>> /\ IsErr(ret))
       /\ (IsSome(call.mappings) /\ Len(call.mappings.val) = 1)
            => /\ Len(call.actions) = 1
               /\ call.actions[1].kind = "write_file"
               /\ call.actions[1].path = MapFile
               /\ call.actions[1].content = FormatMapping(call.mappings.val[1])
       /\ (IsSome(call.mappings) /\ Len(call.mappings.val) >= 2)
            => /\ Len(call.actions) = 1
               /\ call.actions[1].kind = "command"
               /\ call.actions[1].program.file = HelperName
               /\ call.actions[1].args
                    = <<to_string(target.pid)>> \o MappingArgs(call.mappings.val)

\* C9: in a run that builds the context, writes the UID mapping, then the
\* GID mapping and stops at the first error, every failure is surfaced to
\* the caller as an error, and the run never ends with the UID mapping
\* written into the target and the GID mapping not written.
C9_NoPartialSetup ==
    /\ pc # "panicked"
    /\ \A i \in 1..Len(trace) : ActionFailed(trace[i]) => pc = "failed"
    /\ pc \in {"done", "failed"}
         => ~(IsSome(target.uid_map) /\ IsNone(target.gid_map))

\* C10: whenever Rootless::new returns Some(config), a mapping list of the
\* config with two or more entries has its helper path in the config.
C10_HelperPathPresent ==
    pc = "built"
    => /\ Len(rootless.val.uid_mappings.val) >= 2 => IsSome(rootless.val.newuidmap)
       /\ Len(rootless.val.gid_mappings.val) >= 2 => IsSome(rootless.val.newgidmap)

---------------------------------------------------------------------------
(* How far the violated properties hold *)

\* Some entry's container_id + size exceeds u32::MAX
Overflowing(mappings) ==
    \E i \in 1..Len(mappings) :
        mappings[i].container_id + mappings[i].size > MaxU32

OverflowingSpec ==
    /\ IsSome(spec.linux)
    /\ \/ /\ IsSome(spec.linux.val.uid_mappings)
          /\ Overflowing(spec.linux.val.uid_mappings.val)
       \/ /\ IsSome(spec.linux.val.gid_mappings)
          /\ Overflowing(spec.linux.val.gid_mappings.val)

\* The supplementary group policy and the mount check are the stated ones for
\* every specification none of whose mappings overflows (SpecValidate)
PolicyHoldsWithoutOverflow ==
    ~OverflowingSpec
    => C2_SupplementaryGroupPolicy /\ C3_MountOptionConsistency

\* is_id_mapped is the inclusive range test where no sum overflows (SpecMapped)
MembershipHoldsWithoutOverflow ==
    (Returned("is_id_mapped") /\ ~Overflowing(call.mappings))
    => C7_InclusiveRangeMembership

\* A write performs its one external action unless it unwraps an absent
\* helper path (Spec)
OneActionUnlessHelperPathAbsent ==
    ~C8_OneExternalAction
    => /\ IsPanic(ret)
       /\ IsNone(IF call.op = "write_uid_mapping" THEN rootless.val.newuidmap
                 ELSE rootless.val.newgidmap)

\* The helper path is absent only for one UID mapping with two or more GID
\* mappings (Spec)
HelperPathAbsentOnlyForOneUidMapping ==
    ~C10_HelperPathPresent
    => /\ Len(rootless.val.uid_mappings.val) = 1
       /\ Len(rootless.val.gid_mappings.val) >= 2

=============================================================================
